---- MODULE Spec2Model ----
(***************************************************************************)
(* Model of app.py, the Streamlit dashboard "Global COVID-19 Data Analysis *)
(* and Visualization".  The script is re-run from top to bottom on the     *)
(* first page load and after every widget interaction; what survives a     *)
(* run is the cache file covid.pkl, the st.cache_data memo of load_data    *)
(* and the widgets' values.                                                *)
(*                                                                         *)
(* Dates are day numbers counted from 2020-01-01 (day 0).  Text is a       *)
(* sequence of one-character strings, so that sorting and the CSV          *)
(* encoding work on characters.  A table is a sequence of rows; a row      *)
(* carries idx, the label of pandas' index.                                *)
(***************************************************************************)
EXTENDS Integers, Sequences, FiniteSets, TLC

VARIABLES
    pickle,         \* content of covid.pkl, or NoFile
    memo,           \* st.cache_data's stored result of load_data, or NoMemo
    created,        \* number of create_local_data runs (each writes covid.pkl)
    rng,            \* state of numpy's global random generator
    date_range,     \* value of the date-range widget: a sequence of 0..2 days
    top_n,          \* value of the "Top N countries" slider
    country,        \* value of the "Country" select box (None: no option)
    status,         \* "notrun", "ok", or the exception that ended the last run
    df,             \* the table load_data returned in the last run
    df_filtered,    \* the script's tables, as the last run computed them
    latest,
    top_countries,
    countries,
    ts,
    bubble,
    csv             \* payload handed to the download button: a sequence of lines

vars == <<pickle, memo, created, rng, date_range, top_n, country, status, df,
          df_filtered, latest, top_countries, countries, ts, bubble, csv>>

\* covid.pkl: absent, or holding a table
NoFile == [exists |-> FALSE, data |-> <<>>]
File(t) == [exists |-> TRUE, data |-> t]
\* the memo of load_data: empty, or holding the table it returned
NoMemo == [cached |-> FALSE, value |-> <<>>]
Memo(t) == [cached |-> TRUE, value |-> t]
\* Python's None where a name is expected: the empty text (no row's name is empty)
None == <<>>

-----------------------------------------------------------------------------
(* Bounds of the model and constants of the program. *)

\* rows of a covid.pkl that exists before the first run
MaxFileRows == 2
\* the user picks days -1..MaxPick in the date-range widget
MaxPick == 1
\* seeds 0..MaxSeed of numpy's global random generator
MaxSeed == 1
\* locations of a latest-per-location table handed to the ranking alone
MaxLocs == 6

\* line 23: periods=600 from 2020-01-01; line 24: blocks of 200 rows;
\* lines 25-26: the ranges of randint; line 55: slider(5, 30, 10)
PICKLE_PERIODS == 600
BLOCK_ROWS == 200
CASES_LOW == 100
CASES_HIGH == 100000
DEATHS_LOW == 1
DEATHS_HIGH == 2000
SLIDER_MIN == 5
SLIDER_MAX == 30
SLIDER_DEFAULT == 10
EPOCH_YEAR == 2020

-----------------------------------------------------------------------------
(* Text. *)

Ascii ==
    [c \in {"\n", "\"", ",", "-", "_", "0", "1", "2", "3", "4", "5", "6", "7",
            "8", "9", "A", "I", "K", "S", "U", "a", "c", "d", "e", "h", "i",
            "l", "n", "o", "s", "t"} |->
        CASE c = "\n" -> 10 [] c = "\"" -> 34 [] c = "," -> 44 [] c = "-" -> 45
          [] c = "0" -> 48 [] c = "1" -> 49 [] c = "2" -> 50 [] c = "3" -> 51
          [] c = "4" -> 52 [] c = "5" -> 53 [] c = "6" -> 54 [] c = "7" -> 55
          [] c = "8" -> 56 [] c = "9" -> 57
          [] c = "A" -> 65 [] c = "I" -> 73 [] c = "K" -> 75 [] c = "S" -> 83
          [] c = "U" -> 85 [] c = "_" -> 95
          [] c = "a" -> 97 [] c = "c" -> 99 [] c = "d" -> 100 [] c = "e" -> 101
          [] c = "h" -> 104 [] c = "i" -> 105 [] c = "l" -> 108
          [] c = "n" -> 110 [] c = "o" -> 111 [] c = "s" -> 115
          [] c = "t" -> 116]

Chars == DOMAIN Ascii

\* Python's str order: by code point, a proper prefix first.
RECURSIVE StrLess(_, _)
StrLess(a, b) ==
    IF b = <<>> THEN FALSE
    ELSE IF a = <<>> THEN TRUE
    ELSE IF Ascii[Head(a)] # Ascii[Head(b)] THEN Ascii[Head(a)] < Ascii[Head(b)]
    ELSE StrLess(Tail(a), Tail(b))

India == <<"I", "n", "d", "i", "a">>
USA == <<"U", "S", "A">>
UK == <<"U", "K">>
\* a name holding the CSV delimiter and the quote character
QuotedName == <<"K", ",", "\"", "S">>

Digit == <<"0", "1", "2", "3", "4", "5", "6", "7", "8", "9">>

-----------------------------------------------------------------------------
(* Dataset provider: create_local_data and load_data. *)

Row(i, d, loc, c, dt) ==
    [idx |-> i, date |-> d, location |-> loc, total_cases |-> c, total_deaths |-> dt]

Seeds == 0..MaxSeed

\* The k-th draw of numpy's global generator started from `seed`, as a value
\* of randint(low, high): low <= value < high.
RandInt(seed, k, low, high) ==
    low + ((seed * 7919 + k * 104729 + 12345) % (high - low))

BlockNames == <<India, USA, UK>>

\* lines 22-28: the frame create_local_data builds (row i has index label i).
SynthTable(seed) ==
    [k \in 1..PICKLE_PERIODS |->
        LET i == k - 1
        IN  Row(i, i, BlockNames[(i \div BLOCK_ROWS) + 1],
                RandInt(seed, i, CASES_LOW, CASES_HIGH),
                RandInt(seed, PICKLE_PERIODS + i, DEATHS_LOW, DEATHS_HIGH))]

\* create_local_data with the three names taken in turn, row by row
SynthInterleaved(seed) ==
    [k \in 1..PICKLE_PERIODS |->
        LET i == k - 1
        IN  Row(i, i, BlockNames[(i % 3) + 1],
                RandInt(seed, i, CASES_LOW, CASES_HIGH),
                RandInt(seed, PICKLE_PERIODS + i, DEATHS_LOW, DEATHS_HIGH))]

\* create_local_data(): the new content of covid.pkl (df.to_pickle).
create_local_data(seed) == SynthTable(seed)

\* the generator's state after the draws of one create_local_data
NextSeed(seed) == (seed + 1) % (MaxSeed + 1)

\* load_data without @st.cache_data and without the os.path.exists test: the
\* data is synthesized again in every run
LoadRegenerating(m, file, seed) ==
    LET t == SynthTable(seed)
    IN  [ret |-> t, memo |-> Memo(t), file |-> File(t),
         seed |-> NextSeed(seed), ran |-> 1]

\* load_data under @st.cache_data, called with the memo, the file and the
\* generator's state: the table returned, the memo, the file and the
\* generator afterwards, and how often create_local_data ran.
load_data(m, file, seed) ==
    IF m.cached
    THEN [ret |-> m.value, memo |-> m, file |-> file, seed |-> seed, ran |-> 0]
    ELSE IF ~file.exists
    THEN LET t == create_local_data(seed)
         IN  [ret |-> t, memo |-> Memo(t), file |-> File(t),
              seed |-> NextSeed(seed), ran |-> 1]
    ELSE [ret |-> file.data, memo |-> Memo(file.data), file |-> file,
          seed |-> seed, ran |-> 0]

\* Tables a covid.pkl found at the first run may hold: non-empty, the four
\* columns, a RangeIndex.
FileDays == {0, 1}
FileNames == {UK, QuotedName}
FileCounts == {<<7, 3>>, <<0, 0>>}
FileTables ==
    UNION {
        { [k \in 1..n |-> Row(k - 1, f[k][1], f[k][2], f[k][3][1], f[k][3][2])] :
            f \in [1..n -> FileDays \X FileNames \X FileCounts] }
        : n \in 1..MaxFileRows }

\* df["date"].min() and .max() over rows lo..hi (lines 47-48)
RECURSIVE DateMin(_, _, _)
DateMin(t, lo, hi) ==
    IF lo = hi THEN t[lo].date
    ELSE LET mid == (lo + hi) \div 2
             a == DateMin(t, lo, mid)
             b == DateMin(t, mid + 1, hi)
         IN  IF a <= b THEN a ELSE b

RECURSIVE DateMax(_, _, _)
DateMax(t, lo, hi) ==
    IF lo = hi THEN t[lo].date
    ELSE LET mid == (lo + hi) \div 2
             a == DateMax(t, lo, mid)
             b == DateMax(t, mid + 1, hi)
         IN  IF a >= b THEN a ELSE b

MinDate(t) == DateMin(t, 1, Len(t))
MaxDate(t) == DateMax(t, 1, Len(t))

-----------------------------------------------------------------------------
(* The script's tables. *)

\* Filter with the start bound exclusive (> for >=)
FilterOpenStart(t, start_date, end_date) ==
    SelectSeq(t, LAMBDA r : r.date > start_date /\ r.date <= end_date)

\* Filter with the two masks joined by | for &
FilterEither(t, start_date, end_date) ==
    SelectSeq(t, LAMBDA r : r.date >= start_date \/ r.date <= end_date)

\* line 53: the boolean mask (date >= start_date) & (date <= end_date).
Filter(t, start_date, end_date) ==
    SelectSeq(t, LAMBDA r : r.date >= start_date /\ r.date <= end_date)

\* Every order of the sequence e.
Orders(e) ==
    IF Len(e) <= 1 THEN {e}
    ELSE { [i \in 1..Len(e) |-> e[p[i]]] : p \in Permutations(1..Len(e)) }

\* sort_values with its default kind="quicksort", on pairs [k, r] of a key
\* and a row: the outcomes are ascending in k, and numpy's quicksort is not
\* stable, so that rows of equal key may come out in any order.
RECURSIVE QuickSort(_)
QuickSort(ps) ==
    IF Len(ps) <= 1 THEN {ps}
    ELSE LET pivot == ps[(Len(ps) + 1) \div 2].k
             less == SelectSeq(ps, LAMBDA p : p.k < pivot)
             equal == SelectSeq(ps, LAMBDA p : p.k = pivot)
             more == SelectSeq(ps, LAMBDA p : p.k > pivot)
         IN  { a \o e \o b :
                 a \in QuickSort(less), e \in Orders(equal), b \in QuickSort(more) }

Rows(ps) == [i \in 1..Len(ps) |-> ps[i].r]

\* df.sort_values("date")
SortByDate(t) ==
    { Rows(s) : s \in QuickSort([i \in 1..Len(t) |-> [k |-> t[i].date, r |-> t[i]]]) }

\* SortByCasesDesc without ascending=False
SortByCasesAsc(t) ==
    { Rows(s) :
        s \in QuickSort([i \in 1..Len(t) |-> [k |-> t[i].total_cases, r |-> t[i]]]) }

\* df.sort_values("total_cases", ascending=False)
SortByCasesDesc(t) ==
    { Rows(s) :
        s \in QuickSort([i \in 1..Len(t) |-> [k |-> 0 - t[i].total_cases, r |-> t[i]]]) }

Locations(t) == {t[i].location : i \in 1..Len(t)}

\* sorted(S) for a set S of names
RECURSIVE Sorted(_)
Sorted(S) ==
    IF S = {} THEN <<>>
    ELSE LET m == CHOOSE a \in S : \A b \in S \ {a} : StrLess(a, b)
         IN  <<m>> \o Sorted(S \ {m})

Last(s) == s[Len(s)]

\* GroupByLast with .first() for .last()
GroupByFirst(t) ==
    LET keys == Sorted(Locations(t))
    IN  [g \in 1..Len(keys) |->
            LET grp == SelectSeq(t, LAMBDA r : r.location = keys[g])
            IN  Row(g - 1, grp[1].date, keys[g],
                    grp[1].total_cases, grp[1].total_deaths)]

\* .groupby("location", as_index=False).last(): the groups in sorted key
\* order, each column's last value within the group, a fresh RangeIndex.
GroupByLast(t) ==
    LET keys == Sorted(Locations(t))
    IN  [g \in 1..Len(keys) |->
            LET grp == SelectSeq(t, LAMBDA r : r.location = keys[g])
            IN  Row(g - 1, Last(grp).date, keys[g],
                    Last(grp).total_cases, Last(grp).total_deaths)]

\* line 59: the tables `latest` may be.
Latest(t) == { GroupByLast(s) : s \in SortByDate(t) }

\* .head(n)
HeadRows(t, n) == SubSeq(t, 1, IF n < Len(t) THEN n ELSE Len(t))

\* line 71: the tables `top_countries` may be.
TopCountries(lt, n) == { HeadRows(s, n) : s \in SortByCasesDesc(lt) }

\* line 79
Countries(t) == Sorted(Locations(t))

\* line 80: st.selectbox keeps the user's choice while its options are the
\* same, and else shows the first option, or None when there is none.
SelectBox(options, old_options, choice) ==
    IF options = <<>> THEN None
    ELSE IF options = old_options /\ \E i \in 1..Len(options) : options[i] = choice
    THEN choice
    ELSE options[1]

\* line 82
Timeline(t, c) == SelectSeq(t, LAMBDA r : r.location = c)

\* line 91
Bubble(lt) == SelectSeq(lt, LAMBDA r : r.total_cases > 0 /\ r.total_deaths > 0)

-----------------------------------------------------------------------------
(* The download payload: to_csv(index=False).encode("utf-8"). *)

IsLeap(y) == (y % 4 = 0 /\ y % 100 # 0) \/ y % 400 = 0

DaysInMonth(y, m) ==
    IF m = 2 THEN (IF IsLeap(y) THEN 29 ELSE 28)
    ELSE IF m \in {4, 6, 9, 11} THEN 30 ELSE 31

\* The calendar date of the d-th day (from 0) counted from the 1st of month
\* m of year y.
RECURSIVE Civil(_, _, _)
Civil(y, m, d) ==
    IF d < DaysInMonth(y, m) THEN [year |-> y, month |-> m, day |-> d + 1]
    ELSE Civil(IF m = 12 THEN y + 1 ELSE y, IF m = 12 THEN 1 ELSE m + 1,
               d - DaysInMonth(y, m))

RECURSIVE IntToStr(_)
IntToStr(n) ==
    IF n < 10 THEN <<Digit[n + 1]>>
    ELSE IntToStr(n \div 10) \o <<Digit[(n % 10) + 1]>>

Pad2(n) == <<Digit[(n \div 10) + 1], Digit[(n % 10) + 1]>>

\* A date of the frame as to_csv writes it: YYYY-MM-DD (day 0 is the first
\* day of date_range("2020-01-01", ...)).
FormatDate(d) ==
    LET c == Civil(EPOCH_YEAR, 1, d)
    IN  IntToStr(c.year) \o <<"-">> \o Pad2(c.month) \o <<"-">> \o Pad2(c.day)

RECURSIVE DoubleQuotes(_)
DoubleQuotes(s) ==
    IF s = <<>> THEN <<>>
    ELSE (IF Head(s) = "\"" THEN <<"\"", "\"">> ELSE <<Head(s)>>)
         \o DoubleQuotes(Tail(s))

\* csv's QUOTE_MINIMAL: a field holding the delimiter, the quote character or
\* a line break is quoted, its quotes doubled.
QuoteField(s) ==
    IF \E i \in 1..Len(s) : s[i] \in {",", "\"", "\n"}
    THEN <<"\"">> \o DoubleQuotes(s) \o <<"\"">>
    ELSE s

RECURSIVE JoinFields(_)
JoinFields(fs) ==
    IF Len(fs) = 1 THEN fs[1]
    ELSE fs[1] \o <<",">> \o JoinFields(Tail(fs))

ColumnNames ==
    << <<"d", "a", "t", "e">>,
       <<"l", "o", "c", "a", "t", "i", "o", "n">>,
       <<"t", "o", "t", "a", "l", "_", "c", "a", "s", "e", "s">>,
       <<"t", "o", "t", "a", "l", "_", "d", "e", "a", "t", "h", "s">> >>

\* One line of the file: the fields, comma-separated, and the line break.
CsvLine(fs) == JoinFields([i \in 1..Len(fs) |-> QuoteField(fs[i])]) \o <<"\n">>

RowFields(r) ==
    <<FormatDate(r.date), r.location, IntToStr(r.total_cases), IntToStr(r.total_deaths)>>

\* str.encode("utf-8") of text over the ASCII range: one byte a character.
Encode(s) == [i \in 1..Len(s) |-> Ascii[s[i]]]

\* to_csv_bytes without index=False: the index label leads every line
CsvWithIndex(d) ==
    <<Encode(CsvLine(<<<<>>>> \o ColumnNames))>>
    \o [i \in 1..Len(d) |-> Encode(CsvLine(<<IntToStr(d[i].idx)>> \o RowFields(d[i])))]

\* lines 110-112: the payload, as the sequence of its lines (the header, then
\* one line a row; the index is not written).  @st.cache_data on a function
\* of its argument alone changes no result.
to_csv_bytes(d) ==
    <<Encode(CsvLine(ColumnNames))>>
    \o [i \in 1..Len(d) |-> Encode(CsvLine(RowFields(d[i])))]

-----------------------------------------------------------------------------
(* A reader of the payload: bytes to text, lines to fields (commas separate,
   a quoted field ends at a quote that is not doubled), and the fields to the
   columns' types. *)

Decode(bs) == [i \in 1..Len(bs) |-> CHOOSE c \in Chars : Ascii[c] = bs[i]]

\* The fields of the text s; cur is the field being read, quoted tells whether
\* the reader is inside quotes, acc are the fields read.
RECURSIVE SplitFields(_, _, _, _)
SplitFields(s, cur, quoted, acc) ==
    IF s = <<>> THEN Append(acc, cur)
    ELSE IF quoted
    THEN IF Head(s) = "\""
         THEN IF Len(s) >= 2 /\ s[2] = "\""
              THEN SplitFields(Tail(Tail(s)), Append(cur, "\""), TRUE, acc)
              ELSE SplitFields(Tail(s), cur, FALSE, acc)
         ELSE SplitFields(Tail(s), Append(cur, Head(s)), TRUE, acc)
    ELSE IF Head(s) = "," THEN SplitFields(Tail(s), <<>>, FALSE, Append(acc, cur))
    ELSE IF Head(s) = "\"" /\ cur = <<>> THEN SplitFields(Tail(s), cur, TRUE, acc)
    ELSE SplitFields(Tail(s), Append(cur, Head(s)), FALSE, acc)

\* The fields of one line of the payload, its line break dropped.
ParseLine(bs) ==
    LET s == Decode(bs)
    IN  SplitFields(SubSeq(s, 1, Len(s) - 1), <<>>, FALSE, <<>>)

DigitValue(c) == CHOOSE k \in 0..9 : Digit[k + 1] = c

RECURSIVE StrToInt(_)
StrToInt(s) ==
    IF Len(s) = 1 THEN DigitValue(s[1])
    ELSE 10 * StrToInt(SubSeq(s, 1, Len(s) - 1)) + DigitValue(s[Len(s)])

\* Days from the 1st of January of EPOCH_YEAR to the 1st of month m of year y.
RECURSIVE DaysBefore(_, _)
DaysBefore(y, m) ==
    IF y = EPOCH_YEAR /\ m = 1 THEN 0
    ELSE LET py == IF m = 1 THEN y - 1 ELSE y
             pm == IF m = 1 THEN 12 ELSE m - 1
         IN  DaysBefore(py, pm) + DaysInMonth(py, pm)

\* YYYY-MM-DD to the day number
ParseDate(s) ==
    DaysBefore(StrToInt(SubSeq(s, 1, 4)), StrToInt(SubSeq(s, 6, 7)))
    + StrToInt(SubSeq(s, 9, 10)) - 1

IsNumber(s) ==
    Len(s) >= 1 /\ \A i \in 1..Len(s) : \E k \in 1..10 : Digit[k] = s[i]

IsDate(s) ==
    /\ Len(s) = 10
    /\ s[5] = "-" /\ s[8] = "-"
    /\ IsNumber(SubSeq(s, 1, 4)) /\ IsNumber(SubSeq(s, 6, 7))
    /\ IsNumber(SubSeq(s, 9, 10))
    /\ StrToInt(SubSeq(s, 1, 4)) >= EPOCH_YEAR
    /\ StrToInt(SubSeq(s, 6, 7)) \in 1..12

\* what the reader gives for a line that is no record of the four columns
Malformed ==
    [date |-> -1, location |-> <<>>, total_cases |-> -1, total_deaths |-> -1]

\* the record of a line's fields
ParseRecord(f) ==
    IF Len(f) = 4 /\ IsDate(f[1]) /\ IsNumber(f[3]) /\ IsNumber(f[4])
    THEN [date |-> ParseDate(f[1]), location |-> f[2],
          total_cases |-> StrToInt(f[3]), total_deaths |-> StrToInt(f[4])]
    ELSE Malformed

\* The payload read back: the header's names and the records.
ParseCsv(payload) ==
    [columns |-> ParseLine(payload[1]),
     rows |-> [i \in 1..(Len(payload) - 1) |-> ParseRecord(ParseLine(payload[i + 1]))]]

\* the cells of a table, without the index
Cells(t) ==
    [i \in 1..Len(t) |->
        [date |-> t[i].date, location |-> t[i].location,
         total_cases |-> t[i].total_cases, total_deaths |-> t[i].total_deaths]]

-----------------------------------------------------------------------------
(* The script run, and what starts one. *)

\* The days the user picks: from the day before day 0 up to MaxPick.
PickDays == -1..MaxPick

\* What st.date_input may return: no date, one date, or two; the two are
\* picked days, or the day after the table's last day.
DateRanges(t) ==
    {<<>>} \cup {<<a>> : a \in PickDays} \cup {<<a, b>> : a, b \in PickDays}
    \cup {<<MaxDate(t) + 1, MaxDate(t) + 1>>}

\* Unpack taking a single date for both ends of the range
UnpackLenient(dr) ==
    IF Len(dr) = 2
    THEN [raised |-> FALSE, start_date |-> dr[1], end_date |-> dr[2]]
    ELSE IF Len(dr) = 1
    THEN [raised |-> FALSE, start_date |-> dr[1], end_date |-> dr[1]]
    ELSE [raised |-> TRUE, start_date |-> 0, end_date |-> 0]

\* line 51: start_date, end_date = map(pd.to_datetime, date_range)
Unpack(dr) ==
    IF Len(dr) = 2
    THEN [raised |-> FALSE, start_date |-> dr[1], end_date |-> dr[2]]
    ELSE [raised |-> TRUE, start_date |-> 0, end_date |-> 0]

\* the slider positions the user moves between
TopNPicks == {SLIDER_DEFAULT, SLIDER_MAX}

\* One run of app.py with the widgets at dr, n and choice.  Line 51 unpacks
\* date_range into two names and raises ValueError when it does not hold
\* two dates: the run ends there, and Streamlit forgets the widgets the run
\* did not reach.
RunScript(ld, dr, n, choice) ==
    /\ pickle' = ld.file
    /\ memo' = ld.memo
    /\ rng' = ld.seed
    /\ created' = created + ld.ran
    /\ df' = ld.ret
    /\ date_range' = dr
    /\ IF Unpack(dr).raised
       THEN /\ status' = "ValueError"
            /\ top_n' = SLIDER_DEFAULT
            /\ country' = None
            /\ df_filtered' = <<>>
            /\ latest' = <<>>
            /\ top_countries' = <<>>
            /\ countries' = <<>>
            /\ ts' = <<>>
            /\ bubble' = <<>>
            /\ csv' = <<>>
       ELSE /\ status' = "ok"
            /\ top_n' = n
            /\ df_filtered' = Filter(ld.ret, Unpack(dr).start_date, Unpack(dr).end_date)
            /\ latest' \in Latest(df_filtered')
            /\ top_countries' \in TopCountries(latest', n)
            /\ countries' = Countries(df_filtered')
            /\ country' = SelectBox(countries', countries, choice)
            /\ ts' = Timeline(df_filtered', country')
            /\ bubble' = Bubble(latest')
            /\ csv' = to_csv_bytes(df_filtered')

\* The page is opened: the widgets show their defaults (lines 50, 55, 80).
FirstRun ==
    /\ status = "notrun"
    /\ LET ld == load_data(memo, pickle, rng)
       IN  RunScript(ld, <<MinDate(ld.ret), MaxDate(ld.ret)>>, SLIDER_DEFAULT, None)

ChangeDateRange ==
    /\ status # "notrun"
    /\ \E dr \in DateRanges(df) :
          /\ dr # date_range
          /\ RunScript(load_data(memo, pickle, rng), dr, top_n, country)

ChangeTopN(n) ==
    /\ status = "ok"
    /\ n # top_n
    /\ RunScript(load_data(memo, pickle, rng), date_range, n, country)

ChangeCountry(c) ==
    /\ status = "ok"
    /\ c # country
    /\ \E i \in 1..Len(countries) : countries[i] = c
    /\ RunScript(load_data(memo, pickle, rng), date_range, top_n, c)

\* A click on "Download Filtered CSV" re-runs the script as it stands.
Download ==
    /\ status = "ok"
    /\ RunScript(load_data(memo, pickle, rng), date_range, top_n, country)

\* The process starts with covid.pkl absent or present.  The generator's
\* state is never read when the file is present: one state stands for all.
Init ==
    /\ \/ pickle = NoFile /\ rng \in Seeds
       \/ pickle \in {File(t) : t \in FileTables} /\ rng = 0
    /\ memo = NoMemo
    /\ created = 0
    /\ date_range = <<>>
    /\ top_n = SLIDER_DEFAULT
    /\ country = None
    /\ status = "notrun"
    /\ df = <<>>
    /\ df_filtered = <<>>
    /\ latest = <<>>
    /\ top_countries = <<>>
    /\ countries = <<>>
    /\ ts = <<>>
    /\ bubble = <<>>
    /\ csv = <<>>

Next ==
    \/ FirstRun
    \/ ChangeDateRange
    \/ \E n \in TopNPicks : ChangeTopN(n)
    \/ \E c \in Locations(df) : ChangeCountry(c)
    \/ Download

Spec == Init /\ [][Next]_vars

-----------------------------------------------------------------------------
(* The ranking stage alone (lines 55 and 71), on tables as line 59 leaves
   them: one row a location, the names ascending, a RangeIndex.  Any covid.pkl
   with these rows on one day gives such a table. *)

RankName(k) == <<"A", Digit[k + 1]>>
RankCases == {1, 2}
RankTables ==
    UNION {
        { [k \in 1..n |-> Row(k - 1, 0, RankName(k), f[k], 1)] :
            f \in [1..n -> RankCases] }
        : n \in 0..MaxLocs }

RankNs == {SLIDER_MIN, SLIDER_DEFAULT, SLIDER_MAX}

RankInit ==
    /\ latest \in RankTables
    /\ top_n = SLIDER_DEFAULT
    /\ top_countries = <<>>
    /\ status = "notrun"
    /\ pickle = NoFile
    /\ memo = NoMemo
    /\ created = 0
    /\ rng = 0
    /\ date_range = <<>>
    /\ country = None
    /\ df = <<>>
    /\ df_filtered = <<>>
    /\ countries = <<>>
    /\ ts = <<>>
    /\ bubble = <<>>
    /\ csv = <<>>

\* the slider is set to n and line 71 runs on the table
Rank(n) ==
    /\ status = "notrun"
    /\ top_n' = n
    /\ top_countries' \in TopCountries(latest, n)
    /\ status' = "ok"
    /\ UNCHANGED <<pickle, memo, created, rng, date_range, country, df,
                   df_filtered, latest, countries, ts, bubble, csv>>

RankNext == \E n \in RankNs : Rank(n)

SpecRank == RankInit /\ [][RankNext]_vars

-----------------------------------------------------------------------------
(* The claims about the script, checked under Spec. *)

InWindow(d) == date_range[1] <= d /\ d <= date_range[2]

\* C1: for bounds a <= b the filtered table holds exactly the rows of the
\* loaded table dated within a..b, both bounds included: each such row once,
\* no other row, and in the loaded table's order.
FilterExact ==
    (status = "ok" /\ date_range[1] <= date_range[2]) =>
        /\ \A i \in 1..Len(df) :
              Cardinality({j \in 1..Len(df_filtered) : df_filtered[j] = df[i]})
                = IF InWindow(df[i].date) THEN 1 ELSE 0
        /\ \A j \in 1..Len(df_filtered) :
              \E i \in 1..Len(df) : df[i] = df_filtered[j]
        /\ \A j, k \in 1..Len(df_filtered) :
              j < k => df_filtered[j].idx < df_filtered[k].idx

\* a window a < b with a row on each bound and a row left out
FilterExactWitness ==
    /\ status = "ok"
    /\ date_range[1] < date_range[2]
    /\ \E i \in 1..Len(df_filtered) : df_filtered[i].date = date_range[1]
    /\ \E i \in 1..Len(df_filtered) : df_filtered[i].date = date_range[2]
    /\ Len(df_filtered) < Len(df)

\* C2: latest has one row for each location of the filtered table and no
\* other row; the row's date is the location's greatest date in the filtered
\* table, and its counts are those of a filtered row of that location and date.
LatestPerLocation ==
    status = "ok" =>
        /\ Len(latest) = Cardinality(Locations(df_filtered))
        /\ \A l \in Locations(df_filtered) :
              Cardinality({g \in 1..Len(latest) : latest[g].location = l}) = 1
        /\ \A g \in 1..Len(latest) :
              /\ \A i \in 1..Len(df_filtered) :
                    df_filtered[i].location = latest[g].location
                        => df_filtered[i].date <= latest[g].date
              /\ \E i \in 1..Len(df_filtered) :
                    /\ df_filtered[i].location = latest[g].location
                    /\ df_filtered[i].date = latest[g].date
                    /\ df_filtered[i].total_cases = latest[g].total_cases
                    /\ df_filtered[i].total_deaths = latest[g].total_deaths

\* a location with rows on two days, the later row first in the table
LatestPerLocationWitness ==
    /\ status = "ok"
    /\ Len(df_filtered) = 2
    /\ df_filtered[1].location = df_filtered[2].location
    /\ df_filtered[1].date > df_filtered[2].date
    /\ df_filtered[1].total_cases # df_filtered[2].total_cases
    /\ latest[1].total_cases = df_filtered[1].total_cases

\* C4: every load_data call after the first returns the table the first one
\* returned, and create_local_data never runs a second time.
LoadIdempotent ==
    [][ /\ status # "notrun" => (df' = df /\ created' = created)
        /\ created' <= 1 ]_vars

\* a later run, after a first run that created the file
LoadIdempotentWitness ==
    /\ status = "ok"
    /\ created = 1
    /\ top_n = SLIDER_MAX
    /\ Len(date_range) = 2 /\ date_range[1] = date_range[2]

\* C5: a date range that holds no row of the table gives an empty filtered
\* table, and the run goes through on it: latest, the Top-N table, the
\* location list, the timeline and the bubble input are empty, no location is
\* selected, and the payload is the header line alone.
EmptyWindow ==
    (Len(date_range) = 2 /\ \A i \in 1..Len(df) : ~InWindow(df[i].date)) =>
        /\ status = "ok"
        /\ df_filtered = <<>>
        /\ latest = <<>>
        /\ top_countries = <<>>
        /\ countries = <<>>
        /\ country = None
        /\ ts = <<>>
        /\ bubble = <<>>
        /\ Len(csv) = 1
        /\ Decode(csv[1]) = CsvLine(ColumnNames)

\* the synthesized table, and a range after its last day
EmptyWindowWitness ==
    /\ status = "ok"
    /\ created = 1
    /\ Len(date_range) = 2
    /\ date_range = <<600, 600>>

FullRange ==
    /\ status = "ok"
    /\ created = 1
    /\ date_range[1] <= 0
    /\ date_range[2] >= 599

\* C7: the synthesized table has 600 rows on days 0..599, rows 0-199 India,
\* 200-399 USA, 400-599 UK; filtered to the full range, latest has exactly
\* three rows, India's of day 199, USA's of day 399 and UK's of day 599, each
\* with that day's counts.
SynthScenario ==
    FullRange =>
        /\ Len(df) = 600
        /\ \A k \in 1..600 :
              /\ df[k].date = k - 1
              /\ df[k].location = IF k <= 200 THEN India
                                  ELSE IF k <= 400 THEN USA ELSE UK
        /\ Len(latest) = 3
        /\ \E g \in 1..3 :
              /\ latest[g].location = India /\ latest[g].date = 199
              /\ latest[g].total_cases = df[200].total_cases
              /\ latest[g].total_deaths = df[200].total_deaths
        /\ \E g \in 1..3 :
              /\ latest[g].location = USA /\ latest[g].date = 399
              /\ latest[g].total_cases = df[400].total_cases
              /\ latest[g].total_deaths = df[400].total_deaths
        /\ \E g \in 1..3 :
              /\ latest[g].location = UK /\ latest[g].date = 599
              /\ latest[g].total_cases = df[600].total_cases
              /\ latest[g].total_deaths = df[600].total_deaths

\* the first run after the file was created: the range is the table's span
SynthScenarioWitness ==
    /\ FullRange
    /\ date_range = <<0, 599>>
    /\ Len(df_filtered) = 600

Reversed == Len(date_range) = 2 /\ date_range[1] > date_range[2]

NothingComputed ==
    /\ df_filtered = <<>>
    /\ latest = <<>>
    /\ top_countries = <<>>
    /\ countries = <<>>
    /\ ts = <<>>
    /\ bubble = <<>>

\* C8, as claimed: with a start date after the end date, or a single date,
\* the run reports no error and goes on.
MalformedRangeSilent ==
    (status # "notrun" /\ (Reversed \/ Len(date_range) = 1)) => status = "ok"

\* C8, amended: with a start date after the end date the run reports no
\* error and goes on with an empty filtered table; with a single date line 51
\* raises ValueError and the run ends there, no table computed.
MalformedRange ==
    /\ Reversed => (status = "ok" /\ NothingComputed /\ Len(csv) = 1)
    /\ (status # "notrun" /\ Len(date_range) = 1)
          => (status = "ValueError" /\ NothingComputed /\ csv = <<>>)

\* a run with a single date
MalformedRangeWitness ==
    /\ status = "ValueError"
    /\ Len(date_range) = 1
    /\ Len(df) > 0

\* C9: once the first load is done, no run changes the loaded table, the
\* memo or covid.pkl, whatever widget starts it; the file is written at most
\* once.
DatasetImmutable ==
    [][ /\ status # "notrun" => (df' = df /\ memo' = memo /\ pickle' = pickle)
        /\ created' <= 1 ]_vars

\* a later run on a file found at the first run, the second location selected
DatasetImmutableWitness ==
    /\ status = "ok"
    /\ created = 0
    /\ Len(countries) = 2
    /\ country = countries[2]
    /\ top_n = SLIDER_MAX

\* C6: the payload of every run that reaches the download button reads back
\* as the filtered table: the four columns in order, and row for row the same
\* date, location, total_cases and total_deaths.
CsvRoundTrip ==
    status = "ok" =>
        /\ Len(csv) = Len(df_filtered) + 1
        /\ ParseCsv(csv).columns = ColumnNames
        /\ ParseCsv(csv).rows = Cells(df_filtered)

\* a payload of two records or more, one of them with a quoted name
CsvRoundTripWitness ==
    /\ status = "ok"
    /\ Len(df_filtered) >= 2
    /\ \E i \in 1..Len(df_filtered) : df_filtered[i].location = QuotedName
    /\ \E i \in 1..Len(df_filtered) : df_filtered[i].date > 0

-----------------------------------------------------------------------------
(* The claims about the ranking stage, checked under SpecRank. *)

Min(a, b) == IF a <= b THEN a ELSE b

Returned == {top_countries[j].idx : j \in 1..Len(top_countries)}

\* C3: the Top-N table has min(N, |latest|) rows, each a row of latest taken
\* once, in non-increasing total_cases order, and no row left out has more
\* cases than a row returned.
TopNRows ==
    status = "ok" =>
        /\ Len(top_countries) = Min(top_n, Len(latest))
        /\ \A j \in 1..Len(top_countries) :
              \E i \in 1..Len(latest) : latest[i] = top_countries[j]
        /\ Cardinality(Returned) = Len(top_countries)
        /\ \A j \in 1..(Len(top_countries) - 1) :
              top_countries[j].total_cases >= top_countries[j + 1].total_cases
        /\ \A i \in 1..Len(latest) :
              latest[i].idx \notin Returned =>
                  \A j \in 1..Len(top_countries) :
                      latest[i].total_cases <= top_countries[j].total_cases

\* more rows than N, a row with fewer cases ahead of one with more, and a
\* row left out
TopNRowsWitness ==
    /\ status = "ok"
    /\ Len(latest) > top_n
    /\ latest[1].total_cases < latest[Len(latest)].total_cases
    /\ Len(top_countries) = top_n

\* C10: rows of equal total_cases stand in the Top-N table in the order they
\* had in latest, so that latest and N determine the Top-N table.
TopNStable ==
    status = "ok" =>
        \A j, k \in 1..Len(top_countries) :
            (j < k /\ top_countries[j].total_cases = top_countries[k].total_cases)
                => top_countries[j].idx < top_countries[k].idx

====
